---------------------------- MODULE Spec2Model ----------------------------
(***************************************************************************)
(* A model of src/process_files.py: the ingest-publish-relocate pipeline.  *)
(* main() loads the configuration, builds one ProducerWrapper, lists the   *)
(* input folder once, streams every .csv file line by line to the broker   *)
(* and moves the file to the archive folder (success) or to the error      *)
(* folder together with an error record (failure).                         *)
(*                                                                         *)
(* The file system is a function from directory paths to directories, a    *)
(* directory being a function from entry names to entries.  A name is the  *)
(* record of pathlib's stem and suffix; the stem is a base word followed   *)
(* by the "_<timestamp>" parts move_file may have appended to it.          *)
(* `log` is a history variable: the calls main has made and how each ended.*)
(***************************************************************************)
EXTENDS Integers, Sequences, FiniteSets, TLC

VARIABLES
    pc,               \* main's position
    cfg,              \* the dict load_config returned (main's three folders)
    kafka,            \* KAFKA_BROKER and KAFKA_TOPIC as main read them
    fs,               \* directory path -> (entry name -> entry)
    fs0,              \* history: the file system the run started with
    errlogs,          \* <<directory, log name>> -> the error record written there
    csv_files,        \* main's csv_files list
    idx,              \* position of the for loop in csv_files (1-based)
    processed_count,  \* main's processed_count
    processed,        \* process_csv_file's processed
    lineno,           \* lines of the open file the iterator has delivered
    exit_code,        \* the process's exit status, Running while it runs
    clock,            \* datetime.utcnow() in whole seconds
    log               \* history: the calls made so far and their outcomes

vars == <<pc, cfg, kafka, fs, fs0, errlogs, csv_files, idx, processed_count,
          processed, lineno, exit_code, clock, log>>

-----------------------------------------------------------------------------
(* Bounds of the model. *)

\* The longest file a.csv the input folder may hold, in lines.
MaxLines == 2

\* The last second the clock may reach.
MaxClock == 1

-----------------------------------------------------------------------------
(* Program constants. *)

ExitConfig == 2
ExitInputMissing == 3
ExitKafkaEnv == 4
ExitProducer == 5
ExitListing == 6
ExitInterrupt == 130

\* The status of a run that ended by returning from main().
ExitSuccess == 0

\* The status the interpreter gives an exception nobody caught.
ExitUncaught == 1

\* exit_code while the process runs.
Running == -1

-----------------------------------------------------------------------------
(* Names, lines and files. *)

Name(base, ts, suffix) == [base |-> base, ts |-> ts, suffix |-> suffix]

NoName == Name("", <<>>, "")

\* str.lower() on the suffixes that occur.
Lower(s) ==
    CASE s = ".CSV" -> ".csv"
      [] s = ".Csv" -> ".csv"
      [] s = ".TXT" -> ".txt"
      [] OTHER -> s

\* line.rstrip("\n"): the line without its trailing newline characters.
RECURSIVE RStrip(_)
RStrip(line) ==
    IF Len(line) > 0 /\ line[Len(line)] = "\n"
    THEN RStrip(SubSeq(line, 1, Len(line) - 1))
    ELSE line

\* The lines the text iterator delivers from a.csv: each ends with its
\* newline; a blank line of the file is the newline alone.
DataLines == {<<"x", ",", "1", "\n">>}
BlankLine == <<"\n">>

RECURSIVE SeqsUpTo(_, _)
SeqsUpTo(S, n) ==
    IF n = 0 THEN {<<>>}
    ELSE LET shorter == SeqsUpTo(S, n - 1)
         IN shorter \cup {Append(s, x) : s \in {t \in shorter : Len(t) = n - 1}, x \in S}

\* What a.csv may hold.
Contents == SeqsUpTo(DataLines \cup {BlankLine}, MaxLines)

\* What b.CSV holds when present: its last line has no terminator.
ContentB == << <<"z", "\n">>, <<"w">> >>

RegularFile(id, lines) == [kind |-> "file", id |-> id, lines |-> lines]
Directory(id) == [kind |-> "dir", id |-> id, lines |-> <<>>]

EmptyDir == [n \in {} |-> RegularFile(0, <<>>)]

NameA == Name("a", <<>>, ".csv")
NameB == Name("b", <<>>, ".CSV")
NameTxt == Name("notes", <<>>, ".txt")
NameSub == Name("sub", <<>>, ".csv")

\* The entries of the input folder that are not eligible: a text file and a
\* directory whose name ends in .csv.
Ineligible == (NameTxt :> RegularFile(3, << <<"n", "\n">> >>))
              @@ (NameSub :> Directory(4))

\* The input folders a run may find.
InputFolders ==
    { Ineligible @@ a @@ b :
        a \in {EmptyDir} \cup {NameA :> RegularFile(1, c) : c \in Contents},
        b \in {EmptyDir, NameB :> RegularFile(2, ContentB)} }

-----------------------------------------------------------------------------
(* The history. *)

Event(op, file, dir, name, n, payload, res) ==
    [op |-> op, file |-> file, dir |-> dir, name |-> name, n |-> n,
     payload |-> payload, res |-> res]

Logged(e) == log' = Append(log, e)

-----------------------------------------------------------------------------
(* Path helpers *)

\* Path(p) for a folder setting: Path("") is the current directory.
DirOf(p) == IF p = "" THEN "." ELSE p

\* os.path.isdir
IsDir(p) == DirOf(p) \in DOMAIN fs

\* ensure_dir: mkdir(parents=True, exist_ok=True)
EnsureDir(f, p) ==
    IF DirOf(p) \in DOMAIN f THEN f ELSE (DirOf(p) :> EmptyDir) @@ f

-----------------------------------------------------------------------------
Init ==
    /\ pc = "load_config"
    /\ cfg = [input_folder |-> "", archive_folder |-> "", error_folder |-> ""]
    /\ kafka = [brokers |-> "", topic |-> ""]
    /\ \E d \in InputFolders : fs = ("in" :> d) @@ ("." :> EmptyDir)
    /\ fs0 = fs
    /\ errlogs = [k \in {} |-> 0]
    /\ csv_files = <<>>
    /\ idx = 1
    /\ processed_count = 0
    /\ processed = 0
    /\ lineno = 0
    /\ exit_code = Running
    /\ clock = 0
    /\ log = <<>>

\* sys.exit(code)
Exit(code) ==
    /\ pc' = "exited"
    /\ exit_code' = code

\* main, lines 198-206: load_config raises (no file, no [paths] section), or
\* returns the three settings, each "" when its key is absent or blank.
LoadConfig ==
    /\ pc = "load_config"
    /\ \/ /\ Exit(ExitConfig)
          /\ Logged(Event("load_config", NoName, "", NoName, 0, <<>>, "raise"))
          /\ UNCHANGED cfg
       \/ /\ \E i \in {"", "in", "nodir"}, a \in {"", "arch"}, e \in {"", "err"} :
                cfg' = [input_folder |-> i, archive_folder |-> a, error_folder |-> e]
          /\ Logged(Event("load_config", NoName, "", NoName, 0, <<>>, "ok"))
          /\ pc' = "check_input"
          /\ UNCHANGED exit_code
    /\ UNCHANGED <<fs0, kafka, fs, errlogs, csv_files, idx, processed_count, processed,
                   lineno, clock>>

\* main, lines 210-213: the input folder must be set and be a directory.
CheckInput ==
    /\ pc = "check_input"
    /\ IF cfg.input_folder = "" \/ ~IsDir(cfg.input_folder)
       THEN Exit(ExitInputMissing)
       ELSE pc' = "ensure_dirs" /\ UNCHANGED exit_code
    /\ Logged(Event("check_input", NoName, cfg.input_folder, NoName, 0, <<>>,
                    IF cfg.input_folder = "" \/ ~IsDir(cfg.input_folder)
                    THEN "exit" ELSE "ok"))
    /\ UNCHANGED <<fs0, cfg, kafka, fs, errlogs, csv_files, idx, processed_count,
                   processed, lineno, clock>>

\* main, lines 215-217: both folders are created; a mkdir that raises is
\* caught by nobody and ends the process with a traceback.
EnsureDirs ==
    /\ pc = "ensure_dirs"
    /\ \/ /\ fs' = EnsureDir(EnsureDir(fs, cfg.archive_folder), cfg.error_folder)
          /\ pc' = "kafka_env"
          /\ Logged(Event("ensure_dirs", NoName, "", NoName, 0, <<>>, "ok"))
          /\ UNCHANGED exit_code
       \/ /\ Exit(ExitUncaught)
          /\ Logged(Event("ensure_dirs", NoName, "", NoName, 0, <<>>, "raise"))
          /\ UNCHANGED fs
    /\ UNCHANGED <<fs0, cfg, kafka, errlogs, csv_files, idx, processed_count,
                   processed, lineno, clock>>

\* KafkaEnv with the test of line 224 reduced to "if not KAFKA_BROKER".
KafkaEnvBrokerOnly ==
    /\ pc = "kafka_env"
    /\ \E b \in {"", "broker:9092"}, t \in {"", "topic"} :
          /\ kafka' = [brokers |-> b, topic |-> t]
          /\ IF b = ""
             THEN Exit(ExitKafkaEnv)
             ELSE pc' = "init_producer" /\ UNCHANGED exit_code
          /\ Logged(Event("kafka_env", NoName, "", NoName, 0, <<>>,
                          IF b = "" THEN "exit" ELSE "ok"))
    /\ UNCHANGED <<fs0, cfg, fs, errlogs, csv_files, idx, processed_count,
                   processed, lineno, clock>>

\* main, lines 219-226: os.environ.get gives None for an unset variable;
\* None and "" are both false.
KafkaEnv ==
    /\ pc = "kafka_env"
    /\ \E b \in {"", "broker:9092"}, t \in {"", "topic"} :
          /\ kafka' = [brokers |-> b, topic |-> t]
          /\ IF b = "" \/ t = ""
             THEN Exit(ExitKafkaEnv)
             ELSE pc' = "init_producer" /\ UNCHANGED exit_code
          /\ Logged(Event("kafka_env", NoName, "", NoName, 0, <<>>,
                          IF b = "" \/ t = "" THEN "exit" ELSE "ok"))
    /\ UNCHANGED <<fs0, cfg, fs, errlogs, csv_files, idx, processed_count,
                   processed, lineno, clock>>

\* main, lines 228-233, and ProducerWrapper.__init__: the constructor raises
\* on empty settings and when KafkaProducer cannot reach a broker.
InitProducer ==
    /\ pc = "init_producer"
    /\ \/ /\ kafka.brokers # "" /\ kafka.topic # ""
          /\ pc' = "list"
          /\ Logged(Event("producer_init", NoName, "", NoName, 0, <<>>, "ok"))
          /\ UNCHANGED exit_code
       \/ /\ Exit(ExitProducer)
          /\ Logged(Event("producer_init", NoName, "", NoName, 0, <<>>, "raise"))
    /\ UNCHANGED <<fs0, cfg, kafka, fs, errlogs, csv_files, idx, processed_count,
                   processed, lineno, clock>>

-----------------------------------------------------------------------------
(* The scan. *)

BaseRank(b) ==
    CASE b = "" -> 0
      [] b = "a" -> 1
      [] b = "b" -> 2
      [] b = "notes" -> 3
      [] b = "sub" -> 4

SuffixRank(s) ==
    CASE s = "" -> 0
      [] s = ".CSV" -> 1
      [] s = ".Csv" -> 2
      [] s = ".TXT" -> 3
      [] s = ".csv" -> 4
      [] s = ".txt" -> 5

\* t1 < t2 as the "_<ts>" parts of two names compare in the path string: the
\* character after a shorter list ("." of the suffix) sorts before "_".
RECURSIVE TsLess(_, _)
TsLess(t1, t2) ==
    IF t1 = <<>> THEN t2 # <<>>
    ELSE IF t2 = <<>> THEN FALSE
    ELSE IF Head(t1) # Head(t2) THEN Head(t1) < Head(t2)
    ELSE TsLess(Tail(t1), Tail(t2))

\* Path.__lt__ on two entries of one directory.
PathLess(n1, n2) ==
    IF n1.base # n2.base THEN BaseRank(n1.base) < BaseRank(n2.base)
    ELSE IF n1.ts # n2.ts THEN TsLess(n1.ts, n2.ts)
    ELSE SuffixRank(n1.suffix) < SuffixRank(n2.suffix)

\* sorted(...) of a set of names
RECURSIVE Sorted(_)
Sorted(S) ==
    IF S = {} THEN <<>>
    ELSE LET least == CHOOSE n \in S : \A m \in S \ {n} : PathLess(n, m)
         IN <<least>> \o Sorted(S \ {least})

\* Eligible with the suffix compared as written, without lower().
EligibleCaseSensitive(d, n) == d[n].kind = "file" /\ n.suffix = ".csv"

\* line 243: p.is_file() and p.suffix.lower() == ".csv"
Eligible(d, n) == d[n].kind = "file" /\ Lower(n.suffix) = ".csv"

\* line 243: the csv_files list built from the sorted listing
CsvFiles(d) == Sorted({n \in DOMAIN d : Eligible(d, n)})

\* What producer.flush() and producer.close(timeout=10) can do when called.
Outcomes == {"ok", "raise"}

\* close() without the try around self.flush() of lines 167-170: the exception
\* flush() raises again (line 164) leaves close() before the teardown.
closeFlushUnguarded(fl, td) ==
    IF fl = "raise"
    THEN Event("close", NoName, "", NoName, 0, <<fl>>, "raise")
    ELSE Event("close", NoName, "", NoName, 1, <<fl, td>>, "ok")

\* ProducerWrapper.close(), lines 166-175. self.flush() is called and ends as
\* fl; its exception is swallowed (lines 169-170). Then producer.close() is
\* called and ends as td; its exception is logged and swallowed (lines 174-175).
\* The event keeps the number of teardown attempts in n, what the two calls did
\* in payload, and in res how close() itself ended.
close(fl, td) == Event("close", NoName, "", NoName, 1, <<fl, td>>, "ok")

\* main, lines 235-243
ListInput ==
    /\ pc = "list"
    /\ \/ /\ csv_files' = CsvFiles(fs[DirOf(cfg.input_folder)])
          /\ pc' = "loop"
          /\ Logged(Event("list", NoName, cfg.input_folder, NoName, 0, <<>>, "ok"))
          /\ UNCHANGED exit_code
       \/ /\ \E fl, td \in Outcomes :
                log' = log \o <<Event("list", NoName, cfg.input_folder, NoName, 0, <<>>, "raise"),
                                close(fl, td)>>
          /\ Exit(ExitListing)
          /\ UNCHANGED csv_files
    /\ UNCHANGED <<fs0, cfg, kafka, fs, errlogs, idx, processed_count, processed,
                   lineno, clock>>

-----------------------------------------------------------------------------
(* move_file and write_error_log. *)

\* d without the entry n
Without(d, n) == [m \in DOMAIN d \ {n} |-> d[m]]

\* DestName without the test of line 107: the destination is never renamed.
DestNameNoSuffix(f, n, dest_dir, ts) == n

\* move_file, lines 106-109: the destination name is the source's name, or,
\* when an entry of that name exists in dest_dir, the name with "_<ts>"
\* appended to its stem.
DestName(f, n, dest_dir, ts) ==
    IF n \in DOMAIN EnsureDir(f, dest_dir)[DirOf(dest_dir)]
    THEN Name(n.base, Append(n.ts, ts), n.suffix)
    ELSE n

\* MoveFile with a copy in place of shutil.move (line 109): the source stays.
MoveFileCopies(f, src_dir, n, dest_dir, ts) ==
    LET f1 == EnsureDir(f, dest_dir)
        d == DirOf(dest_dir)
        dest == DestName(f, n, dest_dir, ts)
    IN [f1 EXCEPT ![d] = (dest :> f1[DirOf(src_dir)][n]) @@ @]

\* move_file, lines 105-111: the file system after the move; shutil.move
\* renames, and a rename replaces a file already at the destination path.
MoveFile(f, src_dir, n, dest_dir, ts) ==
    LET f1 == EnsureDir(f, dest_dir)
        d == DirOf(dest_dir)
        dest == DestName(f, n, dest_dir, ts)
        entry == f1[DirOf(src_dir)][n]
        f2 == [f1 EXCEPT ![DirOf(src_dir)] = Without(@, n)]
    IN [f2 EXCEPT ![d] = (dest :> entry) @@ @]

\* shutil.move raises when the source is gone.
CanMove(f, src_dir, n) ==
    DirOf(src_dir) \in DOMAIN f /\ n \in DOMAIN f[DirOf(src_dir)]

\* write_error_log, lines 115-118: the record's path
LogPath(error_folder, n, ts) == <<DirOf(error_folder), n, ts>>

\* write_error_log, lines 119-124: open(log_path, "w") creates the record or
\* truncates the one at that path, then the fields are written.
WriteErrorLog(logs, error_folder, n, processed_lines, ts) ==
    (LogPath(error_folder, n, ts) :>
        [ts |-> ts, file |-> n, processed_lines |-> processed_lines])
    @@ logs

-----------------------------------------------------------------------------
(* The loop over csv_files. *)

filepath == csv_files[idx]

\* Interrupted without the producer.close() of line 258.
InterruptedNoClose(op) ==
    /\ Logged(Event(op, csv_files[idx], "", NoName, 0, <<>>, "interrupt"))
    /\ Exit(ExitInterrupt)

\* The try block's "except KeyboardInterrupt", lines 256-259.
Interrupted(op) ==
    /\ \E fl, td \in Outcomes :
          log' = log \o <<Event(op, csv_files[idx], "", NoName, 0, <<>>, "interrupt"),
                          close(fl, td)>>
    /\ Exit(ExitInterrupt)

\* A KeyboardInterrupt raised outside the try block, or inside the handler
\* of "except Exception": nothing catches it and the interpreter ends the
\* process (status 1, or death by SIGINT, depending on the interpreter).
KilledBySigint == -2

Uncaught(op) ==
    /\ Logged(Event(op, filepath, "", NoName, 0, <<>>, "interrupt"))
    /\ pc' = "exited"
    /\ exit_code' \in {ExitUncaught, KilledBySigint}

\* The end of one loop iteration: the file has reached Done.
Done(e) ==
    /\ log' = log \o <<e, Event("done", filepath, "", NoName, 0, <<>>, "ok")>>
    /\ idx' = idx + 1
    /\ pc' = "loop"

\* LoopHead with a listing that is refreshed when the list is exhausted: the
\* eligible files that arrived since the scan are appended to csv_files.
LoopHeadRescans ==
    /\ pc = "loop"
    /\ \/ /\ idx <= Len(csv_files)
          /\ processed_count' = 0
          /\ pc' = "open"
          /\ Logged(Event("start", filepath, "", NoName, 0, <<>>, "ok"))
          /\ UNCHANGED <<exit_code, csv_files>>
       \/ /\ idx <= Len(csv_files)
          /\ Uncaught("start")
          /\ UNCHANGED <<processed_count, csv_files>>
       \/ /\ idx > Len(csv_files)
          /\ pc' = "cleanup"
          /\ UNCHANGED <<processed_count, exit_code, log, csv_files>>
       \/ /\ idx > Len(csv_files)
          /\ LET d == fs[DirOf(cfg.input_folder)]
                 new == {n \in DOMAIN d : Eligible(d, n) /\ \A k \in DOMAIN csv_files : csv_files[k] # n}
             IN /\ new # {}
                /\ csv_files' = csv_files \o Sorted(new)
          /\ UNCHANGED <<pc, processed_count, exit_code, log>>
    /\ UNCHANGED <<fs0, cfg, kafka, fs, errlogs, idx, processed, lineno, clock>>

\* lines 245-251: the loop head
LoopHead ==
    /\ pc = "loop"
    /\ \/ /\ idx <= Len(csv_files)
          /\ processed_count' = 0
          /\ pc' = "open"
          /\ Logged(Event("start", filepath, "", NoName, 0, <<>>, "ok"))
          /\ UNCHANGED exit_code
       \/ /\ idx <= Len(csv_files)
          /\ Uncaught("start")
          /\ UNCHANGED processed_count
       \/ /\ idx > Len(csv_files)
          /\ pc' = "cleanup"
          /\ UNCHANGED <<processed_count, exit_code, log>>
    /\ UNCHANGED <<fs0, cfg, kafka, fs, errlogs, csv_files, idx, processed, lineno, clock>>

\* process_csv_file, lines 182-184
OpenFile ==
    /\ pc = "open"
    /\ processed' = 0
    /\ lineno' = 0
    /\ \/ /\ CanMove(fs, cfg.input_folder, filepath)
          /\ pc' = "read"
          /\ Logged(Event("open", filepath, "", NoName, 0, <<>>, "ok"))
          /\ UNCHANGED exit_code
       \/ /\ pc' = "write_err"
          /\ Logged(Event("open", filepath, "", NoName, 0, <<>>, "raise"))
          /\ UNCHANGED exit_code
       \/ Interrupted("open")
    /\ UNCHANGED <<fs0, cfg, kafka, fs, errlogs, csv_files, idx, processed_count, clock>>

\* The line the iterator delivers next.
NextLine == fs[DirOf(cfg.input_folder)][filepath].lines[lineno + 1]

AtEof == lineno = Len(fs[DirOf(cfg.input_folder)][filepath].lines)

\* process_csv_file, line 186: the test that skips a line
Skipped(line) == Len(line) = 0

\* ReadLine with a send_line that, when the send raised, sends the same line
\* again instead of raising (line 156).
ReadLineRetries ==
    /\ pc = "read"
    /\ ~AtEof
    /\ \/ /\ Skipped(NextLine)
          /\ lineno' = lineno + 1
          /\ UNCHANGED <<pc, processed, exit_code, log>>
       \/ /\ ~Skipped(NextLine)
          /\ lineno' = lineno + 1
          /\ processed' = processed + 1
          /\ Logged(Event("send", filepath, "", NoName, lineno + 1, RStrip(NextLine), "ack"))
          /\ UNCHANGED <<pc, exit_code>>
       \/ /\ ~Skipped(NextLine)
          /\ \A i \in DOMAIN log :
                ~(log[i].op = "send" /\ log[i].res = "raise" /\ log[i].file = filepath)
          /\ Logged(Event("send", filepath, "", NoName, lineno + 1, RStrip(NextLine), "raise"))
          /\ UNCHANGED <<pc, lineno, processed, exit_code>>
       \/ /\ ~Skipped(NextLine)
          /\ lineno' = lineno + 1
          /\ Interrupted("send")
          /\ UNCHANGED processed
    /\ UNCHANGED <<fs0, cfg, kafka, fs, errlogs, csv_files, idx, processed_count, clock>>

\* ReadLine with a send_line that swallows its exception instead of raising it
\* again (line 156): the loop goes on to the next line.
ReadLineKeepsGoing ==
    /\ pc = "read"
    /\ ~AtEof
    /\ lineno' = lineno + 1
    /\ \/ /\ Skipped(NextLine)
          /\ UNCHANGED <<pc, processed, exit_code, log>>
       \/ /\ ~Skipped(NextLine)
          /\ processed' = processed + 1
          /\ Logged(Event("send", filepath, "", NoName, lineno + 1, RStrip(NextLine), "ack"))
          /\ UNCHANGED <<pc, exit_code>>
       \/ /\ ~Skipped(NextLine)
          /\ Logged(Event("send", filepath, "", NoName, lineno + 1, RStrip(NextLine), "raise"))
          /\ UNCHANGED <<pc, processed, exit_code>>
       \/ /\ ~Skipped(NextLine)
          /\ Interrupted("send")
          /\ UNCHANGED processed
    /\ UNCHANGED <<fs0, cfg, kafka, fs, errlogs, csv_files, idx, processed_count, clock>>

\* process_csv_file, lines 185-189, one iteration, with send_line
\* (lines 148-156): the broker acknowledges, or the send raises, or the
\* user interrupts the wait.
ReadLine ==
    /\ pc = "read"
    /\ ~AtEof
    /\ lineno' = lineno + 1
    /\ \/ /\ Skipped(NextLine)
          /\ UNCHANGED <<pc, processed, exit_code, log>>
       \/ /\ ~Skipped(NextLine)
          /\ processed' = processed + 1
          /\ Logged(Event("send", filepath, "", NoName, lineno + 1, RStrip(NextLine), "ack"))
          /\ UNCHANGED <<pc, exit_code>>
       \/ /\ ~Skipped(NextLine)
          /\ pc' = "write_err"
          /\ Logged(Event("send", filepath, "", NoName, lineno + 1, RStrip(NextLine), "raise"))
          /\ UNCHANGED <<processed, exit_code>>
       \/ /\ ~Skipped(NextLine)
          /\ Interrupted("send")
          /\ UNCHANGED processed
    /\ UNCHANGED <<fs0, cfg, kafka, fs, errlogs, csv_files, idx, processed_count, clock>>

\* Flush with a ProducerWrapper.flush() that swallows its exception as close()
\* does, instead of raising it again (line 164): the file goes on to the
\* archive.
FlushSwallowsFailure ==
    /\ pc = "read"
    /\ AtEof
    /\ \/ /\ processed_count' = processed
          /\ pc' = "archive_move"
          /\ Logged(Event("flush", filepath, "", NoName, 0, <<>>, "ok"))
          /\ UNCHANGED exit_code
       \/ /\ processed_count' = processed
          /\ pc' = "archive_move"
          /\ Logged(Event("flush", filepath, "", NoName, 0, <<>>, "raise"))
          /\ UNCHANGED exit_code
       \/ /\ Interrupted("flush")
          /\ UNCHANGED processed_count
    /\ UNCHANGED <<fs0, cfg, kafka, fs, errlogs, csv_files, idx, processed, lineno, clock>>

\* process_csv_file, lines 192-194, and the assignment of line 253
Flush ==
    /\ pc = "read"
    /\ AtEof
    /\ \/ /\ processed_count' = processed
          /\ pc' = "archive_move"
          /\ Logged(Event("flush", filepath, "", NoName, 0, <<>>, "ok"))
          /\ UNCHANGED exit_code
       \/ /\ pc' = "write_err"
          /\ Logged(Event("flush", filepath, "", NoName, 0, <<>>, "raise"))
          /\ UNCHANGED <<processed_count, exit_code>>
       \/ /\ Interrupted("flush")
          /\ UNCHANGED processed_count
    /\ UNCHANGED <<fs0, cfg, kafka, fs, errlogs, csv_files, idx, processed, lineno, clock>>

\* lines 254-255
ArchiveMove ==
    /\ pc = "archive_move"
    /\ \/ /\ CanMove(fs, cfg.input_folder, filepath)
          /\ fs' = MoveFile(fs, cfg.input_folder, filepath, cfg.archive_folder, clock)
          /\ Done(Event("move_archive", filepath, DirOf(cfg.archive_folder),
                        DestName(fs, filepath, cfg.archive_folder, clock), 0, <<>>, "ok"))
          /\ UNCHANGED exit_code
       \/ /\ pc' = "write_err"
          /\ Logged(Event("move_archive", filepath, DirOf(cfg.archive_folder), NoName, 0, <<>>, "raise"))
          /\ UNCHANGED <<fs, idx, exit_code>>
       \/ /\ Interrupted("move_archive")
          /\ UNCHANGED <<fs, idx>>
    /\ UNCHANGED <<fs0, cfg, kafka, errlogs, csv_files, processed_count, processed, lineno, clock>>

\* WriteErr with the move of lines 267-271 placed inside the try of line
\* 262: a write_error_log that raises skips the move.
WriteErrSkipsMove ==
    /\ pc = "write_err"
    /\ \/ /\ errlogs' = WriteErrorLog(errlogs, cfg.error_folder, filepath, processed_count, clock)
          /\ pc' = "err_move"
          /\ Logged(Event("write_error_log", filepath, DirOf(cfg.error_folder), NoName,
                          processed_count, <<>>, "ok"))
          /\ UNCHANGED <<exit_code, idx>>
       \/ /\ Done(Event("write_error_log", filepath, DirOf(cfg.error_folder), NoName,
                        processed_count, <<>>, "raise"))
          /\ UNCHANGED <<errlogs, exit_code>>
       \/ /\ Uncaught("write_error_log")
          /\ UNCHANGED <<errlogs, idx>>
    /\ UNCHANGED <<fs0, cfg, kafka, fs, csv_files, processed_count, processed, lineno, clock>>

\* lines 260-266
WriteErr ==
    /\ pc = "write_err"
    /\ \/ /\ errlogs' = WriteErrorLog(errlogs, cfg.error_folder, filepath, processed_count, clock)
          /\ pc' = "err_move"
          /\ Logged(Event("write_error_log", filepath, DirOf(cfg.error_folder), NoName,
                          processed_count, <<>>, "ok"))
          /\ UNCHANGED exit_code
       \/ /\ pc' = "err_move"
          /\ Logged(Event("write_error_log", filepath, DirOf(cfg.error_folder), NoName,
                          processed_count, <<>>, "raise"))
          /\ UNCHANGED <<errlogs, exit_code>>
       \/ /\ Uncaught("write_error_log")
          /\ UNCHANGED errlogs
    /\ UNCHANGED <<fs0, cfg, kafka, fs, csv_files, idx, processed_count, processed, lineno, clock>>

\* ErrMove without the try of line 267: a move that raises leaves main.
ErrMoveUnguarded ==
    /\ pc = "err_move"
    /\ \/ /\ CanMove(fs, cfg.input_folder, filepath)
          /\ fs' = MoveFile(fs, cfg.input_folder, filepath, cfg.error_folder, clock)
          /\ Done(Event("move_error", filepath, DirOf(cfg.error_folder),
                        DestName(fs, filepath, cfg.error_folder, clock), 0, <<>>, "ok"))
          /\ UNCHANGED exit_code
       \/ /\ Logged(Event("move_error", filepath, DirOf(cfg.error_folder), NoName, 0, <<>>, "raise"))
          /\ Exit(ExitUncaught)
          /\ UNCHANGED <<fs, idx>>
       \/ /\ Uncaught("move_error")
          /\ UNCHANGED <<fs, idx>>
    /\ UNCHANGED <<fs0, cfg, kafka, errlogs, csv_files, processed_count, processed, lineno, clock>>

\* lines 267-272
ErrMove ==
    /\ pc = "err_move"
    /\ \/ /\ CanMove(fs, cfg.input_folder, filepath)
          /\ fs' = MoveFile(fs, cfg.input_folder, filepath, cfg.error_folder, clock)
          /\ Done(Event("move_error", filepath, DirOf(cfg.error_folder),
                        DestName(fs, filepath, cfg.error_folder, clock), 0, <<>>, "ok"))
          /\ UNCHANGED exit_code
       \/ /\ Done(Event("move_error", filepath, DirOf(cfg.error_folder), NoName, 0, <<>>, "raise"))
          /\ UNCHANGED <<fs, exit_code>>
       \/ /\ Uncaught("move_error")
          /\ UNCHANGED <<fs, idx>>
    /\ UNCHANGED <<fs0, cfg, kafka, errlogs, csv_files, processed_count, processed, lineno, clock>>

\* Cleanup without the producer.close() of line 276.
CleanupNoClose ==
    /\ pc = "cleanup"
    /\ Exit(ExitSuccess)
    /\ UNCHANGED <<fs0, cfg, kafka, fs, errlogs, csv_files, idx, processed_count,
                   processed, lineno, clock, log>>

\* lines 274-278, and the return from main()
Cleanup ==
    /\ pc = "cleanup"
    /\ \E fl, td \in Outcomes : Logged(close(fl, td))
    /\ Exit(ExitSuccess)
    /\ UNCHANGED <<fs0, cfg, kafka, fs, errlogs, csv_files, idx, processed_count,
                   processed, lineno, clock>>

\* A second passes.
Tick ==
    /\ pc # "exited"
    /\ clock < MaxClock
    /\ clock' = clock + 1
    /\ UNCHANGED <<fs0, pc, cfg, kafka, fs, errlogs, csv_files, idx, processed_count,
                   processed, lineno, exit_code, log>>

Next ==
    \/ LoadConfig
    \/ CheckInput
    \/ EnsureDirs
    \/ KafkaEnv
    \/ InitProducer
    \/ ListInput
    \/ LoopHead
    \/ OpenFile
    \/ ReadLine
    \/ Flush
    \/ ArchiveMove
    \/ WriteErr
    \/ ErrMove
    \/ Cleanup
    \/ Tick

Spec == Init /\ [][Next]_vars

-----------------------------------------------------------------------------
(* Reading the history. *)

\* The events of the history that satisfy Test, in order.
Events(Test(_)) == SelectSeq(log, Test)

IsAck(e) == e.op = "send" /\ e.res = "ack"

\* The sends of file f the broker acknowledged before event i.
AckedBefore(f, i) ==
    Cardinality({j \in 1..(i - 1) : IsAck(log[j]) /\ log[j].file = f})

\* The sends of file f the broker has acknowledged.
Acked(f) == AckedBefore(f, Len(log) + 1)

\* The payloads of file f the broker has acknowledged, in order.
Payloads(f) ==
    LET acks == Events(LAMBDA e : IsAck(e) /\ e.file = f)
    IN [k \in 1..Len(acks) |-> acks[k].payload]

\* The files that reached Done, in order.
DoneSeq ==
    LET ds == Events(LAMBDA e : e.op = "done")
    IN [k \in 1..Len(ds) |-> ds[k].file]

\* The files that entered processing, in order.
StartSeq ==
    LET ss == Events(LAMBDA e : e.op = "start" /\ e.res = "ok")
    IN [k \in 1..Len(ss) |-> ss[k].file]

Has(Test(_)) == \E i \in DOMAIN log : Test(log[i])

InterruptedRun == Has(LAMBDA e : e.res = "interrupt")

ScanOk == Has(LAMBDA e : e.op = "list" /\ e.res = "ok")

CloseCalls == Len(Events(LAMBDA e : e.op = "close"))

\* The lines of a file that are not blank.
NonBlank(lines) == SelectSeq(lines, LAMBDA l : RStrip(l) # <<>>)

-----------------------------------------------------------------------------
(* C1 *)

\* All three folders are set, and no file of the input folder has a blank
\* line.
PlainRun ==
    /\ cfg.archive_folder # "" /\ cfg.error_folder # ""
    /\ \A n \in DOMAIN fs0["in"] : NonBlank(fs0["in"][n].lines) = fs0["in"][n].lines

\* C1: for every file on which a send or the flush raised, the count written
\* into the error record equals the number of lines of that file the broker
\* had acknowledged.  (Stated for runs with all folders set and files without
\* blank lines.)
C1_RecordCountsAcknowledged ==
    PlainRun =>
        \A k \in DOMAIN errlogs :
            Has(LAMBDA e : /\ e.file = errlogs[k].file
                           /\ e.op \in {"send", "flush"}
                           /\ e.res = "raise")
            => errlogs[k].processed_lines = Acked(errlogs[k].file)

-----------------------------------------------------------------------------
(* C2 *)

\* C2: when process_csv_file has returned for a file (every publish
\* acknowledged, flush succeeded), the messages published for it are its
\* non-empty lines, in order, each without its terminator, a blank line giving
\* no message; and a move to the archive folder that succeeded has put the
\* file there.  (Stated for runs with all folders set.)
C2_OneMessagePerNonEmptyLine ==
    (cfg.archive_folder # "" /\ cfg.error_folder # "") =>
    /\ pc = "archive_move" =>
          LET lines == NonBlank(fs[DirOf(cfg.input_folder)][filepath].lines)
          IN Payloads(filepath) = [k \in 1..Len(lines) |-> RStrip(lines[k])]
    /\ \A i \in DOMAIN log :
          (log[i].op = "move_archive" /\ log[i].res = "ok") =>
              /\ log[i].name \in DOMAIN fs[DirOf(cfg.archive_folder)]
              /\ log[i].file \notin DOMAIN fs[DirOf(cfg.input_folder)]

-----------------------------------------------------------------------------
(* move_file on its own: files of a few names are dropped into a source     *)
(* folder and moved to one destination folder, in any order and at any      *)
(* second, as successive runs of the program do.                            *)

\* The files dropped into the source folder over time.
MaxDrops == 3

\* The names dropped: one base name, and the name move_file would give it at
\* second 0.
MoveNames == {NameA, Name("a", <<0>>, ".csv")}

Drops == Len(Events(LAMBDA e : e.op = "drop"))

InitMove ==
    /\ pc = "moving"
    /\ cfg = [input_folder |-> "in", archive_folder |-> "arch", error_folder |-> "err"]
    /\ kafka = [brokers |-> "", topic |-> ""]
    /\ fs = ("in" :> EmptyDir) @@ ("arch" :> EmptyDir)
    /\ fs0 = fs
    /\ errlogs = [k \in {} |-> 0]
    /\ csv_files = <<>>
    /\ idx = 1
    /\ processed_count = 0
    /\ processed = 0
    /\ lineno = 0
    /\ exit_code = Running
    /\ clock = 0
    /\ log = <<>>

\* A new file, with content of its own, appears in the source folder.
MvDrop ==
    /\ pc = "moving"
    /\ Drops < MaxDrops
    /\ \E n \in MoveNames \ DOMAIN fs["in"] :
          /\ fs' = [fs EXCEPT !["in"] = (n :> RegularFile(Drops + 1, <<>>)) @@ @]
          /\ Logged(Event("drop", n, "in", n, Drops + 1, <<>>, "ok"))
    /\ UNCHANGED <<pc, cfg, kafka, fs0, errlogs, csv_files, idx, processed_count,
                   processed, lineno, exit_code, clock>>

\* move_file(src, archive_folder) for a file of the source folder.
MvMove ==
    /\ pc = "moving"
    /\ \E n \in DOMAIN fs["in"] :
          /\ fs' = MoveFile(fs, "in", n, cfg.archive_folder, clock)
          /\ Logged(Event("move_archive", n, DirOf(cfg.archive_folder),
                          DestName(fs, n, cfg.archive_folder, clock),
                          fs["in"][n].id, <<>>, "ok"))
    /\ UNCHANGED <<pc, cfg, kafka, fs0, errlogs, csv_files, idx, processed_count,
                   processed, lineno, exit_code, clock>>

NextMove ==
    \/ MvDrop
    \/ MvMove
    \/ Tick

SpecMove == InitMove /\ [][NextMove]_vars

-----------------------------------------------------------------------------
(* C3 *)

\* Event i is a move that put a file into its destination directory.
Placed(i) == log[i].op \in {"move_archive", "move_error"} /\ log[i].res = "ok"

\* The file event i placed is at the path it was given, with its content.
StillThere(i) ==
    /\ log[i].name \in DOMAIN fs[log[i].dir]
    /\ fs[log[i].dir][log[i].name].id = log[i].n

\* Events i and j placed files at the same path.
SamePath(i, j) == log[i].dir = log[j].dir /\ log[i].name = log[j].name

\* C3 as stated: after any sequence of moves into one directory every file
\* ever placed there is still present with its own content, and no arrival
\* was given the path of an earlier one.
C3_NoMoveOverwrites ==
    \A i \in DOMAIN log :
        Placed(i) =>
            /\ StillThere(i)
            /\ \A j \in DOMAIN log : (j > i /\ Placed(j)) => ~SamePath(i, j)

\* C3, amended: a move never replaces the entry at the arrival's own name:
\* when that name is taken the arrival goes to <stem>_<second><suffix>, so a
\* file placed in the directory is still there with its content unless a
\* later arrival was renamed to exactly its path (the suffixed path of the
\* same second), which replaces it.
C3_OnlySuffixedPathReplaced ==
    \A i \in DOMAIN log :
        Placed(i) =>
            /\ \A j \in DOMAIN log :
                  (j > i /\ Placed(j) /\ SamePath(i, j)) =>
                      \E t \in 0..MaxClock :
                          log[j].name = Name(log[j].file.base,
                                             Append(log[j].file.ts, t),
                                             log[j].file.suffix)
            /\ \/ StillThere(i)
               \/ \E j \in DOMAIN log : j > i /\ Placed(j) /\ SamePath(i, j)

\* C3 witness: two arrivals of one name were moved into the directory, the
\* second under the suffixed name, and both are there.
C3_Witness ==
    \E i, j \in DOMAIN log :
        /\ i < j /\ Placed(i) /\ Placed(j)
        /\ log[i].file = log[j].file /\ log[i].dir = log[j].dir
        /\ log[j].name # log[j].file
        /\ StillThere(i) /\ StillThere(j)

-----------------------------------------------------------------------------
(* C4 *)

IsPrefix(s, t) == Len(s) <= Len(t) /\ s = SubSeq(t, 1, Len(s))

\* Event e is a fault of a file: an exception raised inside the try block of
\* lines 252-255.
IsFault(e) == e.res = "raise" /\ e.op \in {"open", "send", "flush", "move_archive"}

\* A step of main (time passing apart).
ProgramStep ==
    \/ LoadConfig \/ CheckInput \/ EnsureDirs \/ KafkaEnv \/ InitProducer
    \/ ListInput \/ LoopHead \/ OpenFile \/ ReadLine \/ Flush \/ ArchiveMove
    \/ WriteErr \/ ErrMove \/ Cleanup

\* C4: the files enter processing and reach Done in scan order, one at a
\* time; after the scan the process ends only by an interrupt or by the
\* normal end of main, with every scanned file Done, whatever raised on the
\* way; and until it has ended, main always has a next step.
C4_FaultsNeverAbortTheRun ==
    /\ IsPrefix(StartSeq, csv_files)
    /\ IsPrefix(DoneSeq, StartSeq)
    /\ Len(StartSeq) <= Len(DoneSeq) + 1
    /\ (pc = "exited" /\ ScanOk /\ ~InterruptedRun) =>
          (DoneSeq = csv_files /\ exit_code = ExitSuccess)
    /\ pc # "exited" => ENABLED ProgramStep

\* C4 witness: a run of two files ended normally; the first file faulted, its
\* error record could not be written and its move failed, and the second
\* file was processed all the same.
C4_Witness ==
    /\ pc = "exited" /\ exit_code = ExitSuccess
    /\ Len(csv_files) = 2 /\ DoneSeq = csv_files
    /\ Has(LAMBDA e : IsFault(e) /\ e.file = csv_files[1])
    /\ Has(LAMBDA e : e.op = "write_error_log" /\ e.res = "raise" /\ e.file = csv_files[1])
    /\ Has(LAMBDA e : e.op = "move_error" /\ e.res = "raise" /\ e.file = csv_files[1])
    /\ Has(LAMBDA e : IsAck(e) /\ e.file = csv_files[2])

-----------------------------------------------------------------------------
(* C5 *)

\* Event e is an interrupt that arrived inside process_csv_file.
StreamingInterrupt(e) == e.res = "interrupt" /\ e.op \in {"open", "send", "flush"}

\* C5: an interrupt during Streaming is followed by close() and by exit
\* status 130 and by nothing else; the interrupted file is still in the input
\* folder as it was, has no error record and was not moved, and it is the last
\* file that entered processing.
C5_InterruptDuringStreaming ==
    \A i \in DOMAIN log :
        StreamingInterrupt(log[i]) =>
            LET f == log[i].file
            IN /\ Len(log) = i + 1
               /\ log[i + 1].op = "close"
               /\ CloseCalls = 1
               /\ pc = "exited"
               /\ exit_code = ExitInterrupt
               /\ f \in DOMAIN fs[DirOf(cfg.input_folder)]
               /\ fs[DirOf(cfg.input_folder)][f] = fs0[DirOf(cfg.input_folder)][f]
               /\ \A k \in DOMAIN errlogs : errlogs[k].file # f
               /\ ~Has(LAMBDA e : e.file = f /\ e.op \in {"move_archive", "move_error", "write_error_log"})
               /\ StartSeq[Len(StartSeq)] = f

\* C5 witness: the user interrupted the send of a line of the first of two
\* files, after a line of it had been acknowledged.
C5_Witness ==
    /\ Len(csv_files) = 2
    /\ Has(LAMBDA e : StreamingInterrupt(e) /\ e.op = "send" /\ e.file = csv_files[1])
    /\ Acked(csv_files[1]) >= 1
    /\ pc = "exited"

-----------------------------------------------------------------------------
(* C6 *)

\* C6: close() is never called twice; in a run that got past the scan and is
\* not interrupted it is not called while main runs, and when the run has
\* ended it has been called once, as the last call, with every scanned file
\* Done, and the exit status is the success code (zero files included).
C6_ClosedOnceAfterAllDone ==
    /\ CloseCalls <= 1
    /\ (ScanOk /\ ~InterruptedRun /\ pc # "exited") => CloseCalls = 0
    /\ (ScanOk /\ ~InterruptedRun /\ pc = "exited") =>
          /\ CloseCalls = 1
          /\ log[Len(log)].op = "close"
          /\ DoneSeq = csv_files
          /\ exit_code = ExitSuccess

\* C6 witness: a run with no eligible file has ended.
C6_Witness ==
    /\ ScanOk /\ csv_files = <<>>
    /\ pc = "exited" /\ exit_code = ExitSuccess
    /\ CloseCalls = 1

-----------------------------------------------------------------------------
(* C7 *)

\* C7: a fault of a file is followed by the call of write_error_log for that
\* file, and that call, whether it returned or raised, by the attempt to move
\* the file to the error folder, and that attempt, whether it succeeded or
\* raised, by the file's Done; main goes on after each.
C7_FaultedFileRecordedThenMoved ==
    \A i \in DOMAIN log :
        IsFault(log[i]) =>
            /\ Len(log) = i => pc = "write_err"
            /\ Len(log) > i =>
                  /\ log[i + 1].op = "write_error_log"
                  /\ log[i + 1].file = log[i].file
            /\ (Len(log) = i + 1 /\ log[i + 1].res \in {"ok", "raise"}) => pc = "err_move"
            /\ Len(log) > i + 1 =>
                  /\ log[i + 1].res \in {"ok", "raise"}
                  /\ log[i + 2].op = "move_error"
                  /\ log[i + 2].file = log[i].file
                  /\ log[i + 2].res \in {"ok", "raise"} =>
                        /\ log[i + 2].dir = DirOf(cfg.error_folder)
                        /\ Len(log) > i + 2
                        /\ log[i + 3].op = "done"
                        /\ log[i + 3].file = log[i].file
                        /\ Len(log) = i + 3 => pc \in {"loop", "cleanup"}

\* C7 witness: write_error_log raised for a faulted file and the file was
\* then moved to the error folder.
C7_Witness ==
    \E i \in DOMAIN log :
        /\ IsFault(log[i])
        /\ Len(log) >= i + 3
        /\ log[i + 1].op = "write_error_log" /\ log[i + 1].res = "raise"
        /\ log[i + 2].op = "move_error" /\ log[i + 2].res = "ok"
        /\ log[i + 2].name \in DOMAIN fs[DirOf(cfg.error_folder)]

-----------------------------------------------------------------------------
(* C8 *)

\* The spellings of the extension that are ".csv" but for the letter case.
CsvInAnyCase == {".csv", ".CSV", ".Csv"}

Range(q) == {q[i] : i \in DOMAIN q}

\* Entry n of the input folder is as the run found it and no call was made
\* for it.
Untouched(n) ==
    /\ n \in DOMAIN fs["in"]
    /\ fs["in"][n] = fs0["in"][n]
    /\ ~Has(LAMBDA e : e.file = n)
    /\ \A k \in DOMAIN errlogs : errlogs[k].file # n

\* C8: an entry of the input folder that is not a regular file, or whose
\* extension is not .csv in some letter case, is never touched; a regular file
\* whose extension is .csv in any letter case is in csv_files after the scan.
C8_OnlyCsvFilesEnter ==
    \A n \in DOMAIN fs0["in"] :
        IF fs0["in"][n].kind = "file" /\ n.suffix \in CsvInAnyCase
        THEN (ScanOk /\ cfg.input_folder = "in") => n \in Range(csv_files)
        ELSE Untouched(n)

\* C8 witness: a run has ended in which b.CSV was published and archived
\* while notes.txt and the directory sub.csv are still in the input folder.
C8_Witness ==
    /\ pc = "exited" /\ exit_code = ExitSuccess
    /\ Acked(NameB) = 2
    /\ Has(LAMBDA e : e.op = "move_archive" /\ e.res = "ok" /\ e.file = NameB)
    /\ Untouched(NameTxt) /\ Untouched(NameSub)

-----------------------------------------------------------------------------
(* C9 *)

\* No line was published, no file moved and no error record written.
NoWorkDone ==
    /\ ~Has(LAMBDA e : e.op \in {"start", "open", "send", "flush", "move_archive",
                                 "move_error", "write_error_log", "done"})
    /\ fs["in"] = fs0["in"]
    /\ \A d \in DOMAIN fs \ {"in"} : fs[d] = EmptyDir
    /\ errlogs = [k \in {} |-> 0]

\* The exit status main gives each fatal startup condition found in the
\* state: 0 when there is none.
FatalCode ==
    IF Has(LAMBDA e : e.op = "load_config" /\ e.res = "raise") THEN ExitConfig
    ELSE IF /\ Has(LAMBDA e : e.op = "check_input")
            /\ (cfg.input_folder = "" \/ cfg.input_folder \notin DOMAIN fs0)
         THEN ExitInputMissing
    ELSE IF /\ Has(LAMBDA e : e.op = "kafka_env")
            /\ (kafka.brokers = "" \/ kafka.topic = "")
         THEN ExitKafkaEnv
    ELSE IF Has(LAMBDA e : e.op = "producer_init" /\ e.res = "raise") THEN ExitProducer
    ELSE IF Has(LAMBDA e : e.op = "list" /\ e.res = "raise") THEN ExitListing
    ELSE ExitSuccess

\* C9: the five exit codes differ from each other, from 0 and from 130; as
\* soon as a fatal startup condition has been met the process has ended with
\* the condition's code, having done no work; and the process ends with one of
\* these codes for no other reason.
C9_FatalStartupExits ==
    /\ Cardinality({ExitConfig, ExitInputMissing, ExitKafkaEnv, ExitProducer,
                    ExitListing, ExitSuccess, ExitInterrupt}) = 7
    /\ FatalCode # ExitSuccess =>
          /\ pc = "exited"
          /\ exit_code = FatalCode
          /\ NoWorkDone
    /\ exit_code \in {ExitConfig, ExitInputMissing, ExitKafkaEnv, ExitProducer, ExitListing}
          => exit_code = FatalCode

\* C9 witness: the input folder could not be listed; the producer was closed
\* and the process ended with code 6.
C9_Witness ==
    /\ Has(LAMBDA e : e.op = "list" /\ e.res = "raise")
    /\ exit_code = ExitListing
    /\ CloseCalls = 1

-----------------------------------------------------------------------------
(* C10 *)

\* C10: while main processes a file, the three folders, the broker list and
\* the topic are all non-empty.
C10_ConfigurationComplete ==
    pc \in {"open", "read", "archive_move", "write_err", "err_move"} =>
        /\ cfg.input_folder # ""
        /\ cfg.archive_folder # ""
        /\ cfg.error_folder # ""
        /\ kafka.brokers # ""
        /\ kafka.topic # ""


-----------------------------------------------------------------------------
(* C11 *)

\* The calls of ProducerWrapper.close() so far.
Closes == Events(LAMBDA e : e.op = "close")

\* C11: every call of close() returned normally, whatever its flush and its
\* connection teardown did (each may have failed), and it attempted the
\* teardown once, also when the flush before it had failed.
C11_CloseNeverRaises ==
    \A i \in DOMAIN Closes :
        /\ Closes[i].res = "ok"
        /\ Closes[i].n = 1
        /\ Len(Closes[i].payload) = 2
        /\ Closes[i].payload[1] \in Outcomes
        /\ Closes[i].payload[2] \in Outcomes

\* C11 witness: a close() whose flush and whose teardown both failed has
\* returned, and main went on to exit with the interrupt status.
C11_Witness ==
    /\ Len(Closes) = 1
    /\ Closes[1].payload = <<"raise", "raise">>
    /\ Closes[1].res = "ok"
    /\ pc = "exited" /\ exit_code = ExitInterrupt

-----------------------------------------------------------------------------
(* C12 *)

\* The place of file f in csv_files.
Pos(f) == CHOOSE k \in DOMAIN csv_files : csv_files[k] = f

\* Event e is a call of send_line that submitted a line to the broker.
IsSend(e) == e.op = "send" /\ e.res \in {"ack", "raise"}

\* C12: a line is submitted only when every line of its file submitted before
\* it has been acknowledged, and those are earlier lines of the file; and when
\* a line of a file is submitted, every call made for another file (its
\* publishes, its flush, its relocation) belongs to a file earlier in scan
\* order and is followed by that file's Done before the submission.  So the
\* broker receives the lines file by file, in scan order and in line order.
C12_StrictlySequential ==
    \A j \in DOMAIN log :
        IsSend(log[j]) =>
            LET f == log[j].file
            IN /\ \A i \in 1..(j - 1) :
                     (IsSend(log[i]) /\ log[i].file = f) =>
                         (log[i].res = "ack" /\ log[i].n < log[j].n)
               /\ \A g \in Range(csv_files) \ {f} :
                     LET calls == {i \in 1..(j - 1) : log[i].file = g}
                     IN calls # {} =>
                           /\ Pos(g) < Pos(f)
                           /\ \E k \in calls :
                                 /\ log[k].op = "done"
                                 /\ \A i \in calls : i <= k

\* C12 witness: two lines of the first file were acknowledged one after the
\* other, the file was flushed and archived, and a line of the second file was
\* then acknowledged.
C12_Witness ==
    /\ Len(csv_files) = 2
    /\ Acked(csv_files[1]) = 2
    /\ Has(LAMBDA e : e.op = "move_archive" /\ e.res = "ok" /\ e.file = csv_files[1])
    /\ Acked(csv_files[2]) >= 1

-----------------------------------------------------------------------------
(* C13 *)

\* Before event i every line of file f was acknowledged and the flush that
\* follows the last line returned.
FullyPublishedBefore(f, i) ==
    /\ AckedBefore(f, i) = Len(fs0["in"][f].lines)
    /\ \E j \in 1..(i - 1) : log[j].op = "flush" /\ log[j].res = "ok" /\ log[j].file = f
    /\ \A j \in 1..(i - 1) : log[j].file = f => log[j].res = "ok" \/ IsAck(log[j])

\* C13: move_file to the archive folder is called for a file only when every
\* line of it was acknowledged and its flush returned; a file found in the
\* archive folder (when that is not also the error folder) is such a file; and
\* a file whose flush raised is never moved to the archive: its error record
\* is written and it is moved to the error folder, and it is there when that
\* move succeeded.
C13_ArchivedOnlyWhenAllAcknowledged ==
    /\ \A i \in DOMAIN log :
          log[i].op = "move_archive" => FullyPublishedBefore(log[i].file, i)
    /\ (/\ DirOf(cfg.archive_folder) \in DOMAIN fs
        /\ DirOf(cfg.archive_folder) # DirOf(cfg.error_folder)) =>
          \A n \in DOMAIN fs[DirOf(cfg.archive_folder)] :
              \E f \in DOMAIN fs0["in"] :
                  /\ fs[DirOf(cfg.archive_folder)][n] = fs0["in"][f]
                  /\ FullyPublishedBefore(f, Len(log) + 1)
    /\ \A i \in DOMAIN log :
          (log[i].op = "flush" /\ log[i].res = "raise") =>
              LET f == log[i].file
              IN /\ ~Has(LAMBDA e : e.op = "move_archive" /\ e.file = f)
                 /\ Has(LAMBDA e : e.op = "done" /\ e.file = f) =>
                       /\ log[i + 1].op = "write_error_log" /\ log[i + 1].file = f
                       /\ log[i + 2].op = "move_error" /\ log[i + 2].file = f
                       /\ log[i + 2].dir = DirOf(cfg.error_folder)
                       /\ log[i + 2].res = "ok" =>
                             /\ log[i + 2].name \in DOMAIN fs[DirOf(cfg.error_folder)]
                             /\ f \notin DOMAIN fs["in"]
                 /\ (Len(log) > i /\ log[i + 1].res = "ok") =>
                       \E k \in DOMAIN errlogs : errlogs[k].file = f

\* C13 witness: every line of the first file was acknowledged and its flush
\* raised: it has an error record and is in the error folder, not in the
\* archive; the second file was published in full and is in the archive.
C13_Witness ==
    /\ Len(csv_files) = 2
    /\ cfg.archive_folder = "arch" /\ cfg.error_folder = "err"
    /\ Acked(csv_files[1]) = 2
    /\ Has(LAMBDA e : e.op = "flush" /\ e.res = "raise" /\ e.file = csv_files[1])
    /\ csv_files[1] \in DOMAIN fs["err"]
    /\ \E k \in DOMAIN errlogs : errlogs[k].file = csv_files[1]
    /\ DOMAIN fs["arch"] = {csv_files[2]}

-----------------------------------------------------------------------------
(* C14 *)

\* Event e is a failure of process_csv_file: of the open, of a publish or of
\* the flush.
IsProcessingFailure(e) == e.res = "raise" /\ e.op \in {"open", "send", "flush"}

\* C14: when process_csv_file returned for a file and the move to the archive
\* folder raised, write_error_log is not called for the file, the file is not
\* moved to the error folder and it has no error record; every error record
\* belongs to a file whose processing failed.  (Stated for runs with all
\* folders set and files without blank lines.)
C14_RelocationFailureNotAFault ==
    PlainRun =>
        /\ \A i \in DOMAIN log :
              (log[i].op = "move_archive" /\ log[i].res = "raise") =>
                  /\ ~Has(LAMBDA e : /\ e.file = log[i].file
                                     /\ e.op \in {"write_error_log", "move_error"})
                  /\ \A k \in DOMAIN errlogs : errlogs[k].file # log[i].file
        /\ \A k \in DOMAIN errlogs :
              Has(LAMBDA e : IsProcessingFailure(e) /\ e.file = errlogs[k].file)

-----------------------------------------------------------------------------
(* C15 *)

\* The paths at which the file the scan found under name f is now.
Locations(f) ==
    UNION {{<<d, n>> : n \in {m \in DOMAIN fs[d] : fs[d][m] = fs0["in"][f]}} : d \in DOMAIN fs}

\* The moves of file f that succeeded before event i.
MovesBefore(f, i) == {j \in 1..(i - 1) : Placed(j) /\ log[j].file = f}

\* The calls made for file f that are op.
Calls(f, op) == {j \in DOMAIN log : log[j].op = op /\ log[j].file = f}

\* C15 as stated: a file that reached Done entered processing once, exactly
\* one move of it succeeded, it is no longer in the input folder, and it is
\* in the archive folder or in the error folder and not in both.  (Stated for
\* runs with all folders set and files without blank lines.)
C15_ConsumedByExactlyOneMove ==
    PlainRun =>
        \A i \in DOMAIN log :
            log[i].op = "done" =>
                LET f == log[i].file
                IN /\ Cardinality(Calls(f, "start")) = 1
                   /\ Cardinality(Calls(f, "done")) = 1
                   /\ Cardinality(MovesBefore(f, i)) = 1
                   /\ f \notin DOMAIN fs["in"]
                   /\ \E d \in {cfg.archive_folder, cfg.error_folder} :
                         Locations(f) = {<<d, f>>}

\* C15, amended: a file that reached Done entered processing once and at
\* most one move of it succeeded.  When one succeeded, the file is no longer
\* in the input folder and is at one path only, the one that move gave it, in
\* the archive folder or the error folder.  When none succeeded, the last
\* call for the file was the move to the error folder, which raised, and the
\* file is still in the input folder as the scan found it, and nowhere else.
C15_MovedAtMostOnce ==
    \A i \in DOMAIN log :
        log[i].op = "done" =>
            LET f == log[i].file
                moves == MovesBefore(f, i)
            IN /\ Cardinality(Calls(f, "start")) = 1
               /\ Cardinality(Calls(f, "done")) = 1
               /\ Cardinality(moves) <= 1
               /\ \A j \in moves :
                     /\ j = i - 1
                     /\ f \notin DOMAIN fs["in"]
                     /\ log[j].dir \in {DirOf(cfg.archive_folder), DirOf(cfg.error_folder)}
                     /\ Locations(f) = {<<log[j].dir, log[j].name>>}
               /\ moves = {} =>
                     /\ log[i - 1].op = "move_error" /\ log[i - 1].res = "raise"
                     /\ log[i - 1].file = f
                     /\ Locations(f) = {<<"in", f>>}

\* C15 witness: of two files that reached Done, the first faulted and its
\* move to the error folder raised, so it is still in the input folder; the
\* second is in the archive folder.
C15_Witness ==
    /\ Len(csv_files) = 2 /\ DoneSeq = csv_files
    /\ cfg.archive_folder = "arch" /\ cfg.error_folder = "err"
    /\ Has(LAMBDA e : e.op = "move_error" /\ e.res = "raise" /\ e.file = csv_files[1])
    /\ Locations(csv_files[1]) = {<<"in", csv_files[1]>>}
    /\ Locations(csv_files[2]) = {<<"arch", csv_files[2]>>}

-----------------------------------------------------------------------------
(* write_error_log on its own: files of a few names fault one after the     *)
(* other, at any second, as they do over successive runs of the program.    *)

\* The calls of write_error_log made over time.
MaxWrites == 3

\* The names of the faulted files.
FaultedNames == {NameA, NameB}

Writes == Len(Events(LAMBDA e : e.op = "write_error_log"))

InitErrLog ==
    /\ pc = "logging"
    /\ cfg = [input_folder |-> "in", archive_folder |-> "arch", error_folder |-> "err"]
    /\ kafka = [brokers |-> "", topic |-> ""]
    /\ fs = ("in" :> EmptyDir) @@ ("err" :> EmptyDir)
    /\ fs0 = fs
    /\ errlogs = [k \in {} |-> 0]
    /\ csv_files = <<>>
    /\ idx = 1
    /\ processed_count = 0
    /\ processed = 0
    /\ lineno = 0
    /\ exit_code = Running
    /\ clock = 0
    /\ log = <<>>

\* write_error_log(error_folder, n, exc, k) for a faulted file n of which k
\* lines were processed: it writes the record, or raises before writing.
ElWrite ==
    /\ pc = "logging"
    /\ Writes < MaxWrites
    /\ \E n \in FaultedNames, k \in 0..MaxLines :
          \/ /\ errlogs' = WriteErrorLog(errlogs, cfg.error_folder, n, k, clock)
             /\ Logged(Event("write_error_log", n, DirOf(cfg.error_folder), NoName, k, <<>>, "ok"))
          \/ /\ Logged(Event("write_error_log", n, DirOf(cfg.error_folder), NoName, k, <<>>, "raise"))
             /\ UNCHANGED errlogs
    /\ UNCHANGED <<pc, cfg, kafka, fs, fs0, csv_files, idx, processed_count,
                   processed, lineno, exit_code, clock>>

NextErrLog ==
    \/ ElWrite
    \/ Tick

SpecErrLog == InitErrLog /\ [][NextErrLog]_vars

-----------------------------------------------------------------------------
(* C16 *)

\* The calls of write_error_log that wrote their record.
Written == Events(LAMBDA e : e.op = "write_error_log" /\ e.res = "ok")

\* C16: every call of write_error_log that wrote a record created a new
\* one: the error folder holds as many records as there were such calls, none
\* having been written over an earlier one.
C16_AlwaysNewArtifact == Cardinality(DOMAIN errlogs) = Len(Written)

-----------------------------------------------------------------------------
(* C18 *)

\* C18: a line of a file is submitted at most once; after a send of a file
\* raised (failure or timeout) no call is made for the file but
\* write_error_log and the move to the error folder, in particular no further
\* send and no move to the archive; and when that move succeeded the file is
\* in the error folder and no longer in the input folder.
C18_NoPublishRetried ==
    /\ \A j \in DOMAIN log :
          IsSend(log[j]) =>
              \A i \in 1..(j - 1) :
                  ~(IsSend(log[i]) /\ log[i].file = log[j].file /\ log[i].n = log[j].n)
    /\ \A i \in DOMAIN log :
          (log[i].op = "send" /\ log[i].res = "raise") =>
              LET f == log[i].file
              IN /\ \A j \in (i + 1)..Len(log) :
                       log[j].file = f =>
                           log[j].op \in {"write_error_log", "move_error", "done"}
                 /\ Has(LAMBDA e : e.op = "done" /\ e.file = f) =>
                       /\ log[i + 2].op = "move_error"
                       /\ log[i + 2].dir = DirOf(cfg.error_folder)
                       /\ log[i + 2].res = "ok" =>
                             /\ Locations(f) = {<<DirOf(cfg.error_folder), log[i + 2].name>>}
                             /\ f \notin DOMAIN fs["in"]

\* C18 witness: the second line of the first file was refused after the first
\* had been acknowledged; the file is in the error folder and the run went on
\* to publish the second file.
C18_Witness ==
    /\ Len(csv_files) = 2
    /\ cfg.error_folder = "err"
    /\ Has(LAMBDA e : e.op = "send" /\ e.res = "raise" /\ e.n = 2 /\ e.file = csv_files[1])
    /\ Acked(csv_files[1]) = 1
    /\ csv_files[1] \in DOMAIN fs["err"]
    /\ Acked(csv_files[2]) >= 1

-----------------------------------------------------------------------------
(* C19 *)

\* The ProducerWrapper has been constructed.
ProducerBuilt == Has(LAMBDA e : e.op = "producer_init" /\ e.res = "ok")

\* C19: when the process has ended after the ProducerWrapper was constructed
\* (end of the run, listing failure, interrupt anywhere in the loop), close()
\* was called, once, as the last call before the exit.  (Stated for runs with
\* all folders set and files without blank lines.)
C19_EveryExitCloses ==
    (PlainRun /\ ProducerBuilt /\ pc = "exited") =>
        /\ CloseCalls = 1
        /\ log[Len(log)].op = "close"

-----------------------------------------------------------------------------
(* The run with an input folder that changes after the scan: main as above, *)
(* while another process adds a file to the folder or removes one from it.  *)

\* The file that arrives after the scan.
NameC == Name("c", <<>>, ".csv")

\* The listing of line 237 has been made.
Scanned == \E i \in DOMAIN log : log[i].op = "list" /\ log[i].res = "ok"

\* An eligible file is put into the input folder after the scan.
EnvAdd ==
    /\ Scanned /\ pc # "exited"
    /\ NameC \notin DOMAIN fs["in"]
    /\ \A d \in DOMAIN fs : NameC \notin DOMAIN fs[d]
    /\ fs' = [fs EXCEPT !["in"] = (NameC :> RegularFile(5, <<>>)) @@ @]
    /\ UNCHANGED <<fs0, pc, cfg, kafka, errlogs, csv_files, idx, processed_count,
                   processed, lineno, exit_code, clock, log>>

\* A listed file that main has not opened yet is removed from the input
\* folder.  (A file removed while main holds it open stays readable through
\* the open handle.)
EnvVanish ==
    /\ Scanned /\ pc # "exited"
    /\ \E k \in DOMAIN csv_files :
          /\ k > idx \/ (k = idx /\ pc \in {"loop", "open"})
          /\ csv_files[k] \in DOMAIN fs["in"]
          /\ fs' = [fs EXCEPT !["in"] = Without(@, csv_files[k])]
    /\ UNCHANGED <<fs0, pc, cfg, kafka, errlogs, csv_files, idx, processed_count,
                   processed, lineno, exit_code, clock, log>>

NextEnv ==
    \/ Next
    \/ EnvAdd
    \/ EnvVanish

SpecEnv == Init /\ [][NextEnv]_vars

-----------------------------------------------------------------------------
(* C17 *)

\* The file the scan listed as f is gone: it is at no path.
Vanished(f) == Locations(f) = {}

\* C17: the input folder is listed at most once, and from then on csv_files
\* is the sorted list of the eligible files the folder held at the scan; only
\* files of that list enter processing, each at most once.  A file that
\* arrived after the scan is in the input folder as it arrived and no call was
\* made for it.  A listed file that vanished before main opened it was not
\* opened: its open raised (or the run was interrupted first), nothing of it
\* was published, and when the run is not interrupted the file reaches Done
\* and the run ends normally with every listed file Done.
C17_ListedOnceNeverRefreshed ==
    /\ Cardinality({i \in DOMAIN log : log[i].op = "list"}) <= 1
    /\ ScanOk => csv_files = CsvFiles(fs0["in"])
    /\ IsPrefix(StartSeq, csv_files)
    /\ \A d \in DOMAIN fs :
          NameC \in DOMAIN fs[d] =>
              /\ d = "in"
              /\ fs[d][NameC] = RegularFile(5, <<>>)
              /\ ~Has(LAMBDA e : e.file = NameC \/ e.name = NameC)
              /\ \A k \in DOMAIN errlogs : errlogs[k].file # NameC
    /\ \A k \in DOMAIN csv_files :
          Vanished(csv_files[k]) =>
              LET f == csv_files[k]
              IN /\ ~Has(LAMBDA e : e.file = f /\ e.op \in {"send", "flush", "move_archive"})
                 /\ ~Has(LAMBDA e : e.file = f /\ e.op \in {"open", "move_error"} /\ e.res = "ok")
                 /\ (pc = "exited" /\ ~InterruptedRun) =>
                       /\ Has(LAMBDA e : e.file = f /\ e.op = "open" /\ e.res = "raise")
                       /\ Has(LAMBDA e : e.file = f /\ e.op = "done")
    /\ (pc = "exited" /\ ScanOk /\ ~InterruptedRun) =>
          (DoneSeq = csv_files /\ exit_code = ExitSuccess)

\* C17 witness: a run of two listed files has ended normally; the first file
\* vanished after the scan and faulted on its open, the second was published
\* and archived, and the file that arrived after the scan is untouched in the
\* input folder.
C17_Witness ==
    /\ pc = "exited" /\ exit_code = ExitSuccess
    /\ Len(csv_files) = 2 /\ DoneSeq = csv_files
    /\ Vanished(csv_files[1])
    /\ Has(LAMBDA e : e.file = csv_files[1] /\ e.op = "open" /\ e.res = "raise")
    /\ Has(LAMBDA e : e.file = csv_files[2] /\ e.op = "move_archive" /\ e.res = "ok")
    /\ NameC \in DOMAIN fs["in"]
    /\ ~Has(LAMBDA e : e.file = NameC)

=============================================================================
